---- MODULE Spec2Model ----
(***************************************************************************)
(* perfectworks-cli: the batch workflow engine.                            *)
(*                                                                         *)
(* The model follows one invocation of one of the three entry points:      *)
(*   "api"  PerfectWorksAPI.processFilesCompleteParallel(tasks, c)         *)
(*   "file" AccessibilityStart.run on a single input file                  *)
(*   "dir"  AccessibilityStart.run on an input directory                   *)
(* and, inside it, every single-item pipeline (processFileComplete).       *)
(*                                                                         *)
(* Node runs the program on one thread: an action of the model is one turn *)
(* of the event loop, i.e. the code that runs between two suspension       *)
(* points (the awaits of the remote calls, of Promise.all and of the       *)
(* confirmation prompt), with the continuations it wakes.                  *)
(*                                                                         *)
(* Work items are named by their index in the input; fsOut[k] is the file  *)
(* at item k's output path.  A directory entry has a name (stem and        *)
(* extension) and its output path is derived from it (OutputPath).  An     *)
(* input file can be readable, unreadable, or gone when its pipeline       *)
(* starts; an entry of an input directory can be a subdirectory.           *)
(***************************************************************************)
EXTENDS Integers, Sequences, FiniteSets, TLC

\* ------------------------------------------------------------------ bounds
MaxItems == 3
MaxConc == 2
MaxPipelines == 1
MaxScan == 2
MaxStems == 2
\* How far below 1 an unvalidated concurrency argument goes, and how many
\* waves a loop whose index does not advance is followed for.
MaxBelow == 2
MaxRewind == 3

\* ------------------------------------------------------- program constants
\* The range of the --concurrency flag.
ConcurrencyMin == 1
ConcurrencyMax == 10

\* The options of the documented --model flag (the AIModel values).
Models == {"doc-veritas", "doc-lumen", "doc-aurum"}

\* The seven remote operations of processFileComplete, in source order.
StepOps ==
  << "upload-url", "upload", "create-record", "process",
     "fetch-record", "download-url", "download" >>

LastStep == Len(StepOps)

\* Variant: every client operation reports under the same context.
StepContextGeneric ==
  << "Request failed", "Request failed", "Request failed", "Request failed",
     "Request failed", "Request failed", "Request failed" >>

\* The error context each client operation puts in front of its message.
StepContext ==
  << "Failed to generate upload URL", "Failed to upload file",
     "Failed to create file record", "Failed to process file for accessibility",
     "Failed to get file details", "Failed to generate download URL",
     "Failed to download file" >>

\* Steps whose client operation unwraps the {success, message, data} envelope
\* (client.post / client.get); upload and download move raw bytes.
IsMetadataStep(s) == StepOps[s] \notin {"upload", "download"}

\* A failed call: the HTTP status of the response ("none": no response at
\* all, a timeout or a network error) and what the response body carries
\* (a message, an error.message, both, or neither).
Statuses == {"400", "401", "403", "404", "429", "500", "503"}
Bodies == {"message", "errorMessage", "both", "empty"}
NoResponse == [status |-> "none", body |-> "empty"]
PlainFaults == {NoResponse}
AllFaults == [status : Statuses, body : Bodies] \cup {NoResponse}

\* formatError: userMessage before the switch; error.message is the
\* transport's own text.
RawMessage(f) ==
  CASE f.body \in {"message", "both"} -> "server message"
    [] f.body = "errorMessage" -> "server error message"
    [] OTHER -> "request failed"

\* Variant: the switch on the status is missing.
UserMessageRaw(f) == RawMessage(f)

\* formatError: userMessage after the switch on the status.
UserMessage(f) ==
  CASE f.status = "401" -> "Invalid API key or authentication failed"
    [] f.status = "403" -> "Access forbidden - check your API key permissions"
    [] f.status = "404" -> "API endpoint not found - check your base URL"
    [] f.status = "429" -> "Rate limit exceeded - please try again later"
    [] f.status = "500" -> "Server error - please try again later"
    [] OTHER -> RawMessage(f)

\* What follows the context in the error of step s's client operation: the
\* metadata operations throw formatError(error, context), uploadFile and
\* downloadFile put error.message there themselves.
ErrorText(s, f) == IF IsMetadataStep(s) THEN UserMessage(f) ELSE "request failed"

\* Variant: the extension is compared as it is spelled.
ToLowerCaseKept(ext) == ext

\* extname(path).toLowerCase() on the extensions the model draws from.
ToLowerCase(ext) ==
  CASE ext \in {".PDF", ".Pdf"} -> ".pdf"
    [] ext \in {".HTML", ".hTmL"} -> ".html"
    [] ext = ".HTM" -> ".htm"
    [] OTHER -> ext

\* Variant: the final `else throw` is missing, every extension goes on.
IsSupportedAny(ext) == TRUE

\* processFileComplete's extension check (the if / else if / else throw).
IsSupported(ext) == ToLowerCase(ext) \in {".pdf", ".html"}

\* Variant: the scan's list of extensions has '.htm' as well.
DirSupportedWithHtm(ext) == ToLowerCase(ext) \in {".pdf", ".html", ".htm"}

\* processDirectory's filter: supportedExtensions.includes(ext).
DirSupported(ext) == ToLowerCase(ext) \in {".pdf", ".html"}

\* ------------------------------------------------------------------- state
VARIABLES
  mode,          \* entry point: "api" | "file" | "dir"
  entries,       \* the input: API task list, directory listing, or the one file
  force,         \* --force
  concurrency,   \* concurrency argument / --concurrency
  ctl,           \* where the command / scheduler is
  filesToProcess,\* the scheduled work items (indices into entries), input order
  i,             \* the wave loop's index variable
  j,             \* number of items of the current wave already mapped
  status,        \* per item: "NotStarted" | "Running" | "Done" | "Failed"
  step,          \* per item: the remote step awaited (Running) or reached last
  calls,         \* per item: the remote calls issued so far, in order
  runs,          \* per item: how many times its pipeline was started
  lastReply,     \* per item: what its latest remote call came back with
  finished,      \* the items of the current wave, in the order they settled
  outcome,       \* per item: the settled value of its wave promise
  results,       \* the scheduler's results array
  fsOut,         \* per item: the file at its outputPath
  selector,      \* the processing model the caller / user asked for, or "none"
  verbose,       \* --verbose
  processRequest,\* per item: the model field of its step-4 request body
  report,        \* what the final summary printed
  lastFault,     \* per item: the status and body of its latest failed call
  locals,        \* per item: the values its pipeline holds from earlier replies
  args,          \* per item: the value each issued call was given, in order
  store,         \* the remote objects: whose bytes were uploaded to each URL
  fileWrites,    \* per item: the local files its pipeline wrote, in order
  started,       \* the items of the current wave, in the order they were begun
  outputDir,     \* the directory the output goes to: "absent" | "present"
  confirmed      \* the answer to the prompt: "unasked" | "yes" | "no"

vars ==
  << mode, entries, force, concurrency, ctl, filesToProcess, i, j, status, step,
     calls, runs, lastReply, finished, outcome, results, fsOut, selector,
     verbose, processRequest, report, lastFault, locals, args, store,
     fileWrites, started, outputDir, confirmed >>

\* What only the continuation of a remote call changes.
remote == << lastFault, locals, store >>

\* What only code that touches the local disk changes.
disk == << fileWrites, outputDir >>

N == Len(entries)
Items == 1..N

NoOutcome == [settled |-> FALSE]

\* Variant: the callback returns {inputFile, success: true} without the result.
SuccessNoResult(k) ==
  [settled |-> TRUE, inputFile |-> k, success |-> TRUE, hasError |-> FALSE,
   error |-> << >>, hasResult |-> FALSE]

\* The value a wave promise settles with (both schedulers build the same
\* shape; the CLI one names the field `file` and carries no result).
Success(k) ==
  [settled |-> TRUE, inputFile |-> k, success |-> TRUE, hasError |-> FALSE,
   error |-> << >>, hasResult |-> (mode = "api")]

\* Variant: the catch block returns {inputFile, success: false} only.
FailureNoMessage(k, msg) ==
  [settled |-> TRUE, inputFile |-> k, success |-> FALSE, hasError |-> FALSE,
   error |-> << >>, hasResult |-> FALSE]

Failure(k, msg) ==
  [settled |-> TRUE, inputFile |-> k, success |-> FALSE, hasError |-> TRUE,
   error |-> msg, hasResult |-> FALSE]

\* makeAccessible's catch: `Failed to process ${filename}: ${errorMessage}`.
Wrap(msg) == IF mode = "api" THEN msg ELSE << "Failed to process" >> \o msg

Terminal(k) == status[k] \in {"Done", "Failed"}

\* ------------------------------------------------------------ the scheduler
\* Variant: no slicing, every remaining task is started at once.
WaveEndAll(from) == Len(filesToProcess)

\* Variant: a negative index of slice counts as 0.
SliceIndexClamped(x, len) == IF x < 0 THEN 0 ELSE IF x < len THEN x ELSE len

\* Array.prototype.slice's reading of an index: a negative one counts from
\* the end, and the result is kept within 0..len.
SliceIndex(x, len) ==
  IF x < 0 THEN (IF len + x < 0 THEN 0 ELSE len + x)
  ELSE IF x < len THEN x ELSE len

\* Variant: the slice starts one item late.
WaveStartLate(from) == SliceIndex(from + 1, Len(filesToProcess))

\* batch = tasks.slice(i, i + concurrency): the positions of the wave.
WaveStart(from) == SliceIndex(from, Len(filesToProcess))

WaveEnd(from) == SliceIndex(from + concurrency, Len(filesToProcess))

Batch(from) == SubSeq(filesToProcess, WaveStart(from) + 1, WaveEnd(from))

\* Variant: Promise.race / Promise.any, fulfilled by the first promise.
AnySettled(batch) == \E p \in 1..Len(batch) : outcome[batch[p]].settled

\* await Promise.all(batchPromises): fulfilled once every promise of the wave is.
AllSettled(batch) == \A p \in 1..Len(batch) : outcome[batch[p]].settled

\* Variant: each callback pushes its own value when it settles.
BatchResultsAsSettled(batch) == [p \in 1..Len(batch) |-> outcome[finished[p]]]

\* Promise.all's value: the settled values in the order of the promises.
BatchResults(batch) == [p \in 1..Len(batch) |-> outcome[batch[p]]]

\* Variant: the loop steps one too far.
NextIndexSkip(from) == from + concurrency + 1

\* i += concurrency
NextIndex(from) == from + concurrency

\* -------------------------------------------------------- single pipeline
\* Variant: the output is named after the input's stem, with a fixed extension.
OutputPathByStem(k) ==
  IF mode = "dir" THEN << "outputDir", entries[k].stem, ".pdf" >>
  ELSE IF mode = "api" THEN << "outputFilePath", k >>
  ELSE << "output" >>

\* The outputPath of item k: join(outputDir, file.name) for a directory
\* entry, flags.output for the single file, the task's own outputFilePath
\* for an API task.
OutputPath(k) ==
  IF mode = "dir" THEN << "outputDir", entries[k].stem, entries[k].ext >>
  ELSE IF mode = "api" THEN << "outputFilePath", k >>
  ELSE << "output" >>

\* Variant: the check does not look at --force.
OutputBlockedForced(k) == fsOut[k] # "absent"

\* The synchronous head of processFile (CLI): the overwrite check.
OutputBlocked(k) == fsOut[k] # "absent" /\ ~force

\* Whether the output directory is there when the invocation starts.
InitialOutputDir ==
  IF \E k \in 1..Len(entries) : entries[k].outExists THEN "present" ELSE "absent"

\* The file at item k's outputPath when the invocation starts.
InitialOutput(k) == IF entries[k].outExists THEN "old" ELSE "absent"

\* Variant: the error is swallowed and the item's wave promise stays pending.
FailItemPending(k, msg) ==
  /\ status' = [status EXCEPT ![k] = "Failed"]
  /\ UNCHANGED << outcome, finished >>

\* Item k fails before or between remote calls with message msg.
FailItem(k, msg) ==
  /\ status' = [status EXCEPT ![k] = "Failed"]
  /\ outcome' = [outcome EXCEPT ![k] = Failure(k, msg)]
  /\ finished' = Append(finished, k)

\* Item k's pipeline returns its result.
CompleteItem(k) ==
  /\ status' = [status EXCEPT ![k] = "Done"]
  /\ outcome' = [outcome EXCEPT ![k] = Success(k)]
  /\ finished' = Append(finished, k)

\* The aiModel option processFileComplete is called with: a task of the API
\* carries its own options; makeAccessible passes {logger, verbose} only.
OptionsModel == IF mode = "api" THEN selector ELSE "none"

\* fileFormat === FileFormat.PDF
IsDocument(ext) == ToLowerCase(ext) = ".pdf"

\* Variant: the model is forwarded whatever the file format.
ProcessRequestAnyFormat(ext, aiModel) == aiModel

\* The model field of the step-4 request body ("none": no such field):
\* processRequest = {}; if (PDF && aiModel) processRequest.model = aiModel.
ProcessRequest(ext, aiModel) ==
  IF IsDocument(ext) /\ aiModel # "none" THEN aiModel ELSE "none"

\* contentType, from the extension check.
ContentType(ext) ==
  IF ToLowerCase(ext) = ".pdf" THEN "application/pdf" ELSE "text/html"

\* The values a pipeline keeps in its local constants: uploadUrlResponse
\* (uploadUrl, objectKey), originalFile.id, processResponse.processedFileId,
\* processedFile.id and downloadUrlResponse.downloadUrl.  A value is named by
\* the item whose first request it descends from; << >> is undefined.
Fields ==
  {"uploadUrl", "objectKey", "id", "processedFileId", "processedId", "downloadUrl"}

NoLocals == [f \in Fields |-> << >>]

\* The value step s (2..7) hands to its client operation.
ArgField(s) ==
  CASE s = 2 -> "uploadUrl"
    [] s = 3 -> "objectKey"
    [] s = 4 -> "id"
    [] s = 5 -> "processedFileId"
    [] s = 6 -> "processedId"
    [] OTHER -> "downloadUrl"

\* Variant: the values live in one place shared by the callbacks of a wave,
\* and a step reads what the wave's first item put there.
HeldByFirst(k, field) ==
  locals'[IF Batch(i) = << >> THEN k ELSE Batch(i)[1]][field]

\* Variant: the values live in one variable every callback assigns, so a
\* step reads what the pipeline begun last has.
HeldByLatest(k, field) ==
  locals'[IF started = << >> THEN k ELSE started[Len(started)]][field]

\* Reading one of the pipeline's own constants (after the reply that has
\* just come back was stored).
Held(k, field) == locals'[k][field]

\* What the call of step s is given.
Arg(k, s) ==
  IF s = 1
    THEN [field |-> "contentType", of |-> << ContentType(entries[k].ext) >>]
    ELSE [field |-> ArgField(s), of |-> Held(k, ArgField(s))]

\* What the remote service answers to item k's call of step s: step 1 makes
\* a fresh upload URL and object key for the requester; every later
\* metadata call answers about the object its argument names.
Received(k, s) ==
  LET given == args[k][s].of
      old == locals[k]
  IN CASE s = 1 -> [old EXCEPT !["uploadUrl"] = << k >>, !["objectKey"] = << k >>]
       [] s = 3 -> [old EXCEPT !["id"] = given]
       [] s = 4 -> [old EXCEPT !["processedFileId"] = given]
       [] s = 5 -> [old EXCEPT !["processedId"] = given]
       [] s = 6 -> [old EXCEPT !["downloadUrl"] = given]
       [] OTHER -> old

\* Variant: every request is sent a second time before its answer is
\* looked at.
IssueWithRetry(k, s) ==
  /\ status' = [status EXCEPT ![k] = "Running"]
  /\ step' = [step EXCEPT ![k] = s]
  /\ calls' = [calls EXCEPT ![k] = Append(Append(@, StepOps[s]), StepOps[s])]
  /\ args' = [args EXCEPT ![k] = Append(@, Arg(k, s))]
  /\ processRequest' =
       IF StepOps[s] = "process"
         THEN [processRequest EXCEPT
                 ![k] = ProcessRequest(entries[k].ext, OptionsModel)]
         ELSE processRequest

\* Item k issues remote step s and suspends on it.
Issue(k, s) ==
  /\ status' = [status EXCEPT ![k] = "Running"]
  /\ step' = [step EXCEPT ![k] = s]
  /\ calls' = [calls EXCEPT ![k] = Append(@, StepOps[s])]
  /\ args' = [args EXCEPT ![k] = Append(@, Arg(k, s))]
  /\ processRequest' =
       IF StepOps[s] = "process"
         THEN [processRequest EXCEPT
                 ![k] = ProcessRequest(entries[k].ext, OptionsModel)]
         ELSE processRequest

\* The head of one pipeline, up to its first suspension: processFile's
\* overwrite check (CLI only), processFileComplete's extension check and
\* fs.statSync(inputFilePath), then step 1 is issued.
Begin(k) ==
  /\ runs' = [runs EXCEPT ![k] = @ + 1]
  /\ IF mode # "api" /\ OutputBlocked(k)
       THEN /\ FailItem(k, << "Output file already exists" >>)
            /\ UNCHANGED << step, calls, processRequest, args >>
       ELSE IF ~IsSupported(entries[k].ext)
         THEN /\ FailItem(k, Wrap(<< "Unsupported file type" >>))
              /\ UNCHANGED << step, calls, processRequest, args >>
         ELSE IF entries[k].input = "missing"
           THEN /\ FailItem(k, Wrap(<< "ENOENT: no such file or directory, stat" >>))
                /\ UNCHANGED << step, calls, processRequest, args >>
           ELSE /\ Issue(k, 1)
                /\ UNCHANGED << outcome, finished >>

\* for (...; i < tasks.length; ...): enter the next wave or leave the loop.
LoopTest ==
  /\ ctl = "loop"
  /\ IF i < Len(filesToProcess)
       THEN ctl' = "map" /\ j' = 0 /\ finished' = << >> /\ started' = << >>
       ELSE /\ ctl' = (IF mode = "api" THEN "returned" ELSE "report")
            /\ UNCHANGED << j, finished, started >>
  /\ UNCHANGED << mode, entries, force, concurrency, selector, verbose, confirmed,
                  remote, args, disk,
                  processRequest, report, filesToProcess, i, status,
                  step, calls, runs, lastReply, outcome, results, fsOut >>

\* Variant: the wave is mapped from its last item to its first.
NextToStartReversed(batch, done) == batch[Len(batch) - done]

\* Array.prototype.map calls the callback on the elements in index order.
NextToStart(batch, done) == batch[done + 1]

\* batch.map(async ...): the callback of the next item of the wave runs up to
\* its first await.
StartItem ==
  /\ ctl = "map"
  /\ j < Len(Batch(i))
  /\ Begin(NextToStart(Batch(i), j))
  /\ started' = Append(started, NextToStart(Batch(i), j))
  /\ j' = j + 1
  /\ UNCHANGED << mode, entries, force, concurrency, selector, verbose, confirmed,
                  remote, disk,
                  report, ctl, filesToProcess, i,
                  lastReply, results, fsOut >>

\* map has returned: the scheduler suspends on Promise.all.
AwaitWave ==
  /\ ctl = "map"
  /\ j = Len(Batch(i))
  /\ ctl' = "await"
  /\ UNCHANGED << mode, entries, force, concurrency, selector, verbose, confirmed,
                  remote, args, disk, started,
                  processRequest, report, filesToProcess, i, j,
                  status, step, calls, runs, lastReply, finished, outcome, results, fsOut >>

\* Variant: the callbacks have no try/catch, so Promise.all rejects when an
\* item of the wave failed and the rejection leaves the scheduler.
WaveDoneRejects ==
  /\ ctl = "await"
  /\ AllSettled(Batch(i))
  /\ IF \E p \in 1..Len(Batch(i)) : ~outcome[Batch(i)[p]].success
       THEN ctl' = "exit1" /\ UNCHANGED << results, i >>
       ELSE /\ results' = results \o BatchResults(Batch(i))
            /\ i' = NextIndex(i)
            /\ ctl' = "loop"
  /\ UNCHANGED << mode, entries, force, concurrency, selector, verbose, confirmed,
                  remote, args, disk, started,
                  processRequest, report, filesToProcess, j, status,
                  step, calls, runs, lastReply, finished, outcome, fsOut >>

\* Promise.all fulfils: results.push(...batchResults); i += concurrency.
WaveDone ==
  /\ ctl = "await"
  /\ AllSettled(Batch(i))
  /\ NextIndex(i) >= 0 - MaxRewind
  /\ results' = results \o BatchResults(Batch(i))
  /\ i' = NextIndex(i)
  /\ ctl' = "loop"
  /\ UNCHANGED << mode, entries, force, concurrency, selector, verbose, confirmed,
                  remote, args, disk, started,
                  processRequest, report, filesToProcess, j, status,
                  step, calls, runs, lastReply, finished, outcome, fsOut >>

\* ------------------------------------------------------- the remote service
\* What one remote call can come back with.  "ok": 2xx, and for a metadata
\* call an envelope with success:true.  "error": a non-2xx status, a timeout
\* or no response (axios rejects).  "falseData" / "falseNull": 2xx with an
\* envelope whose success is false, its data an object / null.
PlainReplies == {"ok", "error"}
EnvelopeReplies == {"ok", "error", "falseData", "falseNull"}

\* "processing" / "failed": a 2xx answer to GET /files/{id} whose record has
\* that FileStatus ("ok" stands for a record that is processed).
RecordStatuses == {"processing", "failed"}
StatusReplies == PlainReplies \cup RecordStatuses

\* The answers step s can get out of a set of answers.
AnswersAt(s, answers) ==
  {r \in answers : r \in RecordStatuses => StepOps[s] = "fetch-record"}

\* Variant: a record that is still processing is fetched again.
NextStepPolling(s, r) ==
  IF StepOps[s] = "fetch-record" /\ r = "processing" THEN s ELSE s + 1

\* processFileComplete goes from each awaited call to the next statement;
\* of the fetched record it reads .id only.
NextStep(s, r) == s + 1

\* What fs.writeFileSync(outputPath, bytes) can do: write the file; fail to
\* open it (nothing changes); or fail after opening it with flag 'w', which
\* leaves a created / truncated, partly written file.
CleanWrites == {"written"}
AllWrites == {"written", "openFailed", "partial"}

\* Variant: the catch block swallows the error instead of rethrowing it.
ClientNeverThrows(s, r) == FALSE

\* The try/catch of every client operation: axios rejects, the operation
\* throws formatError(...); otherwise it returns response.data.data.
ClientThrows(s, r) == r = "error"

\* processFileComplete reads a property of the value of every metadata call
\* (uploadUrl, id, processedFileId, id, downloadUrl) before the next call.
DataMissing(s, r) == IsMetadataStep(s) /\ r = "falseNull"

\* response.data of the download: the service sends the bytes that were
\* uploaded to the object the download URL stands for.
Downloaded(k) ==
  LET url == args[k][LastStep].of
  IN IF url = << >> THEN << >> ELSE store[url[1]]

\* Variant: the response is dropped and nothing is written.
WriteFileSkipped(k, w) == UNCHANGED << fsOut, fileWrites, outputDir >>

\* downloadFile after axios.get returned: mkdir, then writeFileSync.
WriteFile(k, w) ==
  /\ outputDir' = "present"
  /\ fsOut' = [fsOut EXCEPT ![k] =
                 CASE w = "written" -> "processed"
                   [] w = "partial" -> "partial"
                   [] OTHER -> @]
  /\ fileWrites' =
       IF w \in {"written", "partial"}
         THEN [fileWrites EXCEPT
                 ![k] = Append(@, [path |-> OutputPath(k), bytes |-> Downloaded(k),
                                   whole |-> (w = "written")])]
         ELSE fileWrites

\* uploadFile: fs.readFileSync(filePath) throws before the PUT is issued.
ReadFails(k, s) ==
  s <= LastStep /\ StepOps[s] = "upload" /\ entries[k].input = "unreadable"

\* The continuation of item k's pipeline when its awaited call comes back
\* with r (an error being the fault f; for the download, the local write
\* does w).
Resume(k, r, w, f) ==
  LET s == step[k] IN
  /\ lastReply' = [lastReply EXCEPT ![k] = r]
  /\ lastFault' = IF r = "error" THEN [lastFault EXCEPT ![k] = f] ELSE lastFault
  /\ locals' =
       IF IsMetadataStep(s) /\ ~ClientThrows(s, r) /\ ~DataMissing(s, r)
         THEN [locals EXCEPT ![k] = Received(k, s)]
         ELSE locals
  /\ store' =
       IF StepOps[s] = "upload" /\ ~ClientThrows(s, r) /\ args[k][s].of # << >>
         THEN [store EXCEPT ![args[k][s].of[1]] = << k >>]
         ELSE store
  /\ IF ClientThrows(s, r)
       THEN /\ FailItem(k, Wrap(<< StepContext[s], ErrorText(s, f) >>))
            /\ UNCHANGED << step, calls, processRequest, args, fsOut, disk >>
       ELSE IF DataMissing(s, r)
         THEN /\ FailItem(k, Wrap(<< "Cannot read properties of null" >>))
              /\ UNCHANGED << step, calls, processRequest, args, fsOut, disk >>
         ELSE IF ReadFails(k, s + 1)
           THEN /\ FailItem(k, Wrap(<< StepContext[s + 1], "read failed" >>))
                /\ UNCHANGED << step, calls, processRequest, args, fsOut, disk >>
           ELSE IF s < LastStep
             THEN /\ Issue(k, NextStep(s, r))
                  /\ UNCHANGED << outcome, finished, fsOut, disk >>
             ELSE /\ WriteFile(k, w)
                  /\ IF w = "written"
                       THEN CompleteItem(k)
                       ELSE FailItem(k, Wrap(<< StepContext[s], "write failed" >>))
                  /\ UNCHANGED << step, calls, processRequest, args >>

\* run() awaits processFile in file mode: it returns or rejects with it.
AfterPipeline(k) ==
  IF mode = "file" /\ status'[k] = "Done" THEN "exit0"
  ELSE IF mode = "file" /\ status'[k] = "Failed" THEN "exit1"
  ELSE ctl

\* One remote call of one running pipeline comes back.
Reply(answers, writes, faults) ==
  /\ ctl \in {"await", "single"}
  /\ \E k \in Items :
       /\ status[k] = "Running"
       /\ \E r \in (IF IsMetadataStep(step[k])
                    THEN AnswersAt(step[k], answers) ELSE PlainReplies) :
          \E w \in (IF step[k] = LastStep /\ r = "ok" THEN writes ELSE {"written"}) :
          \E f \in (IF r = "error" THEN faults ELSE {NoResponse}) :
            /\ Resume(k, r, w, f)
            /\ ctl' = AfterPipeline(k)
  /\ UNCHANGED << mode, entries, force, concurrency, selector, verbose, confirmed,
                  started,
                  report, filesToProcess, i, j, runs,
                  results >>

\* ------------------------------------------------------------ the command
\* Variant: every entry of the listing is taken for a file, a subdirectory
\* with what it holds included.
IsFileAny(k) == TRUE

\* Dirent.isFile() of entry k of fs.readdirSync(dir, {withFileTypes: true});
\* stats.isFile() of the single input.
IsFile(k) == entries[k].input # "directory"

\* FileService.fileStats: what the analysis counts.
Counted(ext) == ToLowerCase(ext) \in {".pdf", ".html"}

\* filesStats / analyzeDirectory: fileStats runs on the entries that are
\* files; pdfCount + htmlCount.
AnalysisCount ==
  Cardinality({k \in Items : IsFile(k) /\ Counted(entries[k].ext)})

\* run(): this.parse(AccessibilityStart).  The command's static flags declare
\* api-key, base-url, concurrency, force, input, output and verbose: a
\* --model / -m on the command line is a nonexistent flag and parse throws.
Parse ==
  /\ ctl = "parse"
  /\ ctl' = IF selector # "none" THEN "usageError" ELSE "analyze"
  /\ UNCHANGED << mode, entries, force, concurrency, selector, verbose, confirmed,
                  remote, args, disk, started,
                  processRequest, report, filesToProcess, i, j, status, step,
                  calls, runs, lastReply, finished, outcome, results, fsOut >>

\* Variant: filesStats does not look whether the input path exists.
InputExistsAssumed == TRUE

\* fs.existsSync(inputPath) in filesStats.
InputExists == mode # "missing"

\* Variant: run() does not return on an analysis that found nothing.
AnalyzeThenAsk ==
  /\ ctl = "analyze"
  /\ ctl' = IF ~InputExists THEN "exit1" ELSE "confirm"
  /\ UNCHANGED << mode, entries, force, concurrency, selector, verbose, confirmed,
                  remote, args, disk, started,
                  processRequest, report, filesToProcess, i, j,
                  status, step, calls, runs, lastReply, finished, outcome, results, fsOut >>

\* run(): filesStats throws on a missing input; no supported file: return.
Analyze ==
  /\ ctl = "analyze"
  /\ ctl' = IF ~InputExists THEN "exit1"
            ELSE IF AnalysisCount = 0 THEN "exit0"
            ELSE "confirm"
  /\ UNCHANGED << mode, entries, force, concurrency, selector, verbose, confirmed,
                  remote, args, disk, started,
                  processRequest, report, filesToProcess, i, j,
                  status, step, calls, runs, lastReply, finished, outcome, results, fsOut >>

\* Variant: the answer to the prompt is not looked at.
ConfirmUnheeded ==
  /\ ctl = "confirm"
  /\ \E yes \in BOOLEAN :
       /\ confirmed' = IF yes THEN "yes" ELSE "no"
       /\ ctl' = "dispatch"
  /\ UNCHANGED << mode, entries, force, concurrency, selector, verbose,
                  remote, args, disk, started,
                  processRequest, report, filesToProcess, i, j,
                  status, step, calls, runs, lastReply, finished, outcome, results, fsOut >>

\* cli.confirm answered.
Confirm ==
  /\ ctl = "confirm"
  /\ \E yes \in BOOLEAN :
       /\ confirmed' = IF yes THEN "yes" ELSE "no"
       /\ ctl' = IF yes THEN "dispatch" ELSE "exit0"
  /\ UNCHANGED << mode, entries, force, concurrency, selector, verbose,
                  remote, args, disk, started,
                  processRequest, report, filesToProcess, i, j,
                  status, step, calls, runs, lastReply, finished, outcome, results, fsOut >>

\* run(), file input: await this.processFile(...) on the one file.
ProcessFile ==
  /\ ctl = "dispatch"
  /\ mode = "file"
  /\ Begin(1)
  /\ started' = Append(started, 1)
  /\ outputDir' = IF OutputBlocked(1) THEN outputDir ELSE "present"
  /\ ctl' = IF status'[1] = "Failed" THEN "exit1" ELSE "single"
  /\ UNCHANGED << mode, entries, force, concurrency, selector, verbose, confirmed,
                  remote, fileWrites,
                  report, filesToProcess, i, j,
                  lastReply, results, fsOut >>

\* processDirectory's scan: the supported entries, in listing order.
Scan(upto) ==
  LET RECURSIVE Go(_)
      Go(n) == IF n = 0 THEN << >>
               ELSE IF IsFile(n) /\ DirSupported(entries[n].ext)
                 THEN Append(Go(n - 1), n) ELSE Go(n - 1)
  IN Go(upto)

\* run(), directory input: processDirectory, up to the wave loop.
ProcessDirectory ==
  /\ ctl = "dispatch"
  /\ mode = "dir"
  /\ outputDir' = "present"
  /\ filesToProcess' = Scan(N)
  /\ ctl' = IF Scan(N) = << >> THEN "exit0" ELSE "loop"
  /\ i' = 0
  /\ UNCHANGED << mode, entries, force, concurrency, selector, verbose, confirmed,
                  remote, args, fileWrites, started,
                  processRequest, report, j, status, step, calls,
                  runs, lastReply, finished, outcome, results, fsOut >>

\* results.filter(r => r.success).length and results.filter(r => !r.success).length
TotalSuccesses(rs) == Len(SelectSeq(rs, LAMBDA r : r.success))

\* Variant: an outcome counts as failed when it carries no result.
TotalFailuresNoResult(rs) == Len(SelectSeq(rs, LAMBDA r : ~r.hasResult))

TotalFailures(rs) == Len(SelectSeq(rs, LAMBDA r : ~r.success))

\* Variant: the second test is `successful >= 0`.
VerdictNeverAllFailed(successful, failed) ==
  IF failed = 0 THEN "all-succeeded" ELSE "mixed"

\* showFinalSummary's closing line: success / warning / error.
Verdict(successful, failed) ==
  IF failed = 0 THEN "all-succeeded"
  ELSE IF successful > 0 THEN "mixed"
  ELSE "all-failed"

\* The `Failed files:` lines, printed under totalFailures > 0 && flags.verbose.
FailedFiles(rs) ==
  IF TotalFailures(rs) > 0 /\ verbose
    THEN LET failures == SelectSeq(rs, LAMBDA r : ~r.success)
         IN [p \in 1..Len(failures) |->
               [file |-> failures[p].inputFile, error |-> failures[p].error]]
    ELSE << >>

NoReport == [shown |-> FALSE]

\* Variant: a batch with failures ends the command with an error exit.
ExitAfterBatchStrict(failed) == IF failed > 0 THEN "exit1" ELSE "exit0"

\* processFilesInParallel, processDirectory and run() return normally after
\* the summary, whatever the counts are.
ExitAfterBatch(failed) == "exit0"

\* processFilesInParallel after the loop: showFinalSummary, the list of the
\* failed files, then run() returns.
FinalSummary ==
  /\ ctl = "report"
  /\ report' = [shown |-> TRUE,
                total |-> Len(filesToProcess),
                successful |-> TotalSuccesses(results),
                failed |-> TotalFailures(results),
                verdict |-> Verdict(TotalSuccesses(results), TotalFailures(results)),
                listed |-> FailedFiles(results)]
  /\ ctl' = ExitAfterBatch(TotalFailures(results))
  /\ UNCHANGED << mode, entries, force, concurrency, selector, verbose, confirmed,
                  remote, args, disk, started,
                  processRequest, filesToProcess, i, j,
                  status, step, calls, runs, lastReply, finished, outcome, results,
                  fsOut >>

\* ---------------------------------------------------------- specifications
Extensions == {".pdf", ".txt"}
AllExtensions == {".pdf", ".PDF", ".html", ".txt", ""}
Supported == {".pdf", ".html"}
Convertible == {".pdf", ".PDF", ".html"}
InputStates == {"readable", "missing", "unreadable"}

\* The stems a listing draws from: free ones, or entry k is called k.
Stems(in) == IF in.named THEN 1..MaxStems ELSE 1..in.maxN

Listings(in) ==
  UNION {[1..n -> [stem : Stems(in), ext : in.exts, outExists : in.outputs,
                   input : in.inputs]] : n \in 1..in.maxN}

\* A directory holds no two entries of the same name.
DistinctNames(es) ==
  \A a, b \in 1..Len(es) :
    a # b => << es[a].stem, es[a].ext >> # << es[b].stem, es[b].ext >>

\* The state when the entry point is called, for the input space `in`.
InitAt(in, concurrencies) ==
  /\ mode \in {"api", "file", "dir", "missing"}
  /\ entries \in Listings(in)
  /\ IF in.named THEN DistinctNames(entries)
                  ELSE \A k \in 1..Len(entries) : entries[k].stem = k
  /\ mode \in {"file", "missing"} => Len(entries) = 1
  /\ force \in in.forces
  /\ mode = "api" => ~force
  /\ concurrency \in concurrencies
  /\ selector \in in.selectors
  /\ verbose \in in.verboses
  /\ mode = "api" => ~verbose
  /\ ctl = IF mode = "api" THEN "loop" ELSE "parse"
  /\ filesToProcess = IF mode = "api" THEN [k \in Items |-> k] ELSE << >>
  /\ i = 0
  /\ j = 0
  /\ status = [k \in Items |-> "NotStarted"]
  /\ step = [k \in Items |-> 0]
  /\ calls = [k \in Items |-> << >>]
  /\ runs = [k \in Items |-> 0]
  /\ lastReply = [k \in Items |-> "none"]
  /\ finished = << >>
  /\ outcome = [k \in Items |-> NoOutcome]
  /\ results = << >>
  /\ fsOut = [k \in Items |-> InitialOutput(k)]
  /\ processRequest = [k \in Items |-> "unsent"]
  /\ report = NoReport
  /\ lastFault = [k \in Items |-> NoResponse]
  /\ locals = [k \in Items |-> NoLocals]
  /\ args = [k \in Items |-> << >>]
  /\ store = [k \in Items |-> << >>]
  /\ fileWrites = [k \in Items |-> << >>]
  /\ started = << >>
  /\ outputDir = InitialOutputDir
  /\ confirmed = "unasked"

\* The same with a concurrency the --concurrency flag lets through (min 1,
\* max 10).
InitWith(in) ==
  InitAt(in, {c \in ConcurrencyMin..MaxConc : c <= ConcurrencyMax})

\* A batch of up to MaxItems readable inputs, no model asked for. Outputs
\* that exist beforehand are drawn where processFile's overwrite check looks
\* at them (the command without --force); SpecPipeline draws them in every
\* mode.
Init ==
  /\ InitWith([maxN |-> MaxItems, exts |-> Extensions, named |-> FALSE,
               outputs |-> BOOLEAN, inputs |-> {"readable"}, forces |-> BOOLEAN,
               selectors |-> {"none"}, verboses |-> {FALSE}])
  /\ ( mode = "api" \/ force ) => \A k \in Items : ~entries[k].outExists

Schedule ==
  \/ LoopTest
  \/ StartItem
  \/ AwaitWave
  \/ WaveDone
  \/ Parse
  \/ Analyze
  \/ Confirm
  \/ ProcessFile
  \/ ProcessDirectory
  \/ FinalSummary

\* The remote service answers every call with success or with an error.
Next == Schedule \/ Reply(PlainReplies, CleanWrites, PlainFaults)

Spec == Init /\ [][Next]_vars

\* One work item (the bound MaxPipelines), any extension, any state of the
\* input file, and a remote service and a disk that can do everything
\* listed above.
InitPipeline ==
  InitWith([maxN |-> MaxPipelines, exts |-> AllExtensions, named |-> FALSE,
            outputs |-> BOOLEAN, inputs |-> InputStates, forces |-> BOOLEAN,
            selectors |-> {"none"}, verboses |-> BOOLEAN])

NextFaulty == Schedule \/ Reply(EnvelopeReplies, AllWrites, PlainFaults)

SpecPipeline == InitPipeline /\ [][NextFaulty]_vars

\* One work item that can be converted, with any model asked for.
InitOptions ==
  InitWith([maxN |-> MaxPipelines, exts |-> Convertible, named |-> FALSE,
            outputs |-> {FALSE}, inputs |-> {"readable"}, forces |-> {FALSE},
            selectors |-> Models \cup {"none"}, verboses |-> {FALSE}])

SpecOptions == InitOptions /\ [][Next]_vars

\* One convertible work item, and a remote service whose failed calls come
\* back with any status and body.
InitErrors ==
  InitWith([maxN |-> MaxPipelines, exts |-> Supported, named |-> FALSE,
            outputs |-> {FALSE}, inputs |-> {"readable"}, forces |-> {FALSE},
            selectors |-> {"none"}, verboses |-> {FALSE}])

NextErrors == Schedule \/ Reply(PlainReplies, CleanWrites, AllFaults)

SpecErrors == InitErrors /\ [][NextErrors]_vars

\* One work item whose extension is spelled in any of these ways.
Spellings ==
  {".pdf", ".PDF", ".Pdf", ".html", ".HTML", ".hTmL", ".htm", ".HTM", ".txt",
   ".pdfx", ""}

InitClassify ==
  InitWith([maxN |-> MaxPipelines, exts |-> Spellings, named |-> FALSE,
            outputs |-> {FALSE}, inputs |-> {"readable"}, forces |-> {FALSE},
            selectors |-> {"none"}, verboses |-> {FALSE}])

SpecClassify == InitClassify /\ [][Next]_vars

\* Up to MaxScan inputs, every one convertible; a directory's entries have
\* freely chosen names (elsewhere the k-th input is called k).
InitDirectory ==
  /\ InitWith([maxN |-> MaxScan, exts |-> Supported, named |-> TRUE,
               outputs |-> {FALSE}, inputs |-> {"readable"}, forces |-> {FALSE},
               selectors |-> {"none"}, verboses |-> {FALSE}])
  /\ mode # "dir" => \A k \in Items : entries[k].stem = k

SpecDirectory == InitDirectory /\ [][Next]_vars

\* Names a directory can hold next to one another: supported ones in either
\* case, a near miss and an unsupported one.
MixedExtensions == {".pdf", ".HTML", ".htm", ".txt"}

\* An input directory whose entries are files or subdirectories (a
\* subdirectory stands for itself and the supported files it holds); the
\* other entry points are given files.
InitTree ==
  /\ InitWith([maxN |-> MaxScan, exts |-> MixedExtensions, named |-> FALSE,
               outputs |-> {FALSE}, inputs |-> {"readable", "directory"},
               forces |-> {FALSE}, selectors |-> {"none"}, verboses |-> {FALSE}])
  /\ mode # "dir" => \A k \in Items : entries[k].input = "readable"

SpecTree == InitTree /\ [][Next]_vars

\* One convertible work item, and a remote service whose fetched record can
\* have any status.
InitStatus ==
  InitWith([maxN |-> MaxPipelines, exts |-> Supported, named |-> FALSE,
            outputs |-> {FALSE}, inputs |-> {"readable"}, forces |-> {FALSE},
            selectors |-> {"none"}, verboses |-> {FALSE}])

NextStatus == Schedule \/ Reply(StatusReplies, CleanWrites, PlainFaults)

SpecStatus == InitStatus /\ [][NextStatus]_vars

\* Up to MaxScan convertible inputs, any of whose outputs may be there
\* already, with and without --force.
InitOverwrite ==
  InitWith([maxN |-> MaxScan, exts |-> {".pdf"}, named |-> FALSE,
            outputs |-> BOOLEAN, inputs |-> {"readable"}, forces |-> BOOLEAN,
            selectors |-> {"none"}, verboses |-> {FALSE}])

SpecOverwrite == InitOverwrite /\ [][Next]_vars

\* Up to MaxScan inputs, with a scheduler that keeps running its
\* continuations and a remote service whose every call comes back.
InitLive ==
  InitWith([maxN |-> MaxScan, exts |-> Extensions, named |-> FALSE,
            outputs |-> {FALSE}, inputs |-> {"readable"}, forces |-> {FALSE},
            selectors |-> {"none"}, verboses |-> {FALSE}])

Fairness ==
  WF_vars(Schedule) /\ WF_vars(Reply(PlainReplies, CleanWrites, PlainFaults))

SpecLive == InitLive /\ [][Next]_vars /\ Fairness

\* processFilesCompleteParallel called with any integer for its concurrency
\* (the command's flag keeps to its range), a scheduler that keeps running
\* its continuations and a remote service whose every call comes back.
InitUnchecked ==
  /\ InitAt([maxN |-> MaxScan, exts |-> {".pdf"}, named |-> FALSE,
             outputs |-> {FALSE}, inputs |-> {"readable"}, forces |-> {FALSE},
             selectors |-> {"none"}, verboses |-> {FALSE}],
            (1 - MaxBelow)..MaxConc)
  /\ mode # "api" => concurrency >= ConcurrencyMin

SpecUnchecked == InitUnchecked /\ [][Next]_vars /\ Fairness

\* ------------------------------------------------------------ the claims
Positions == 1..Len(filesToProcess)

\* The wave (0, 1, ...) the scheduler puts position p in.
WaveOf(p) == (p - 1) \div concurrency

\* The scheduler has left its loop: the API call returned its results, or
\* the command is at its final summary.
BatchFinished == ctl \in {"returned", "report"}

Running == {k \in Items : status[k] = "Running"}

\* What item k's own pipeline ended with, read from k's state alone.
OwnError(k) ==
  IF calls[k] = << >>
    THEN IF mode # "api" /\ InitialOutput(k) # "absent" /\ ~force
           THEN << "Output file already exists" >>
           ELSE IF ~IsSupported(entries[k].ext)
             THEN Wrap(<< "Unsupported file type" >>)
             ELSE Wrap(<< "ENOENT: no such file or directory, stat" >>)
    ELSE IF lastReply[k] = "error"
      THEN Wrap(<< StepContext[Len(calls[k])],
                   ErrorText(Len(calls[k]), lastFault[k]) >>)
      ELSE IF lastReply[k] = "falseNull"
        THEN Wrap(<< "Cannot read properties of null" >>)
        ELSE IF Len(calls[k]) < LastStep
          THEN Wrap(<< StepContext[Len(calls[k]) + 1], "read failed" >>)
          ELSE Wrap(<< StepContext[LastStep], "write failed" >>)

OwnOutcome(k) ==
  IF status[k] = "Done" THEN Success(k) ELSE Failure(k, OwnError(k))

\* C1: when the batch scheduler has finished, it holds exactly one outcome
\* per scheduled item, and the p-th outcome is the p-th input item's,
\* whatever order the pipelines of a wave settled in.
C1_OutcomesInInputOrder ==
  BatchFinished =>
    /\ Len(results) = Len(filesToProcess)
    /\ \A p \in 1..Len(results) :
         results[p].settled /\ results[p].inputFile = filesToProcess[p]

\* A finished two-item wave whose second item settled first.
C1_Witness ==
  /\ BatchFinished
  /\ Len(filesToProcess) = 2
  /\ finished = << filesToProcess[2], filesToProcess[1] >>
  /\ results[1].inputFile = filesToProcess[1]

\* C2: a failing item never aborts the batch, and every reported outcome is
\* the one the item's own pipeline produced: it does not depend on what
\* happened to any other item of the same or of another wave.
C2_FailureIsolated ==
  /\ mode \in {"api", "dir"} => ctl # "exit1"
  /\ \A k \in Items : outcome[k].settled => outcome[k] = OwnOutcome(k)
  /\ BatchFinished =>
       /\ Len(results) = Len(filesToProcess)
       /\ \A p \in Positions : results[p] = OwnOutcome(filesToProcess[p])

\* Three items, two per wave: the first fails at create-record (step 3),
\* its wave sibling and the item of the next wave complete normally.
C2_Witness ==
  /\ BatchFinished
  /\ concurrency = 2
  /\ Len(results) = 3
  /\ ~results[1].success
  /\ results[1].error = Wrap(<< "Failed to create file record", "request failed" >>)
  /\ results[2].success
  /\ results[3].success

\* C3: no pipeline of a later wave has started while a pipeline of an
\* earlier wave is not yet Done or Failed.
C3_WavesSequential ==
  \A p \in Positions : \A q \in Positions :
    (WaveOf(p) < WaveOf(q) /\ runs[filesToProcess[q]] > 0)
      => Terminal(filesToProcess[p])

\* An item failed at its first step while its wave sibling is still running
\* a later step, and the item of the next wave has not started.
C3_Witness ==
  /\ concurrency = 2
  /\ Len(filesToProcess) = 3
  /\ status[filesToProcess[1]] = "Failed"
  /\ step[filesToProcess[1]] = 1
  /\ status[filesToProcess[2]] = "Running"
  /\ step[filesToProcess[2]] > 1
  /\ status[filesToProcess[3]] = "NotStarted"

\* C4: the number of pipelines started and not yet Done or Failed never
\* exceeds the concurrency limit.
C4_AtMostConcurrencyRunning == Cardinality(Running) <= concurrency

\* The limit is reached: two pipelines run while a third item waits.
C4_Witness ==
  /\ concurrency = 2
  /\ Cardinality(Running) = 2
  /\ Len(filesToProcess) = 3

\* C5: no item is started twice or reported twice, and when the scheduler
\* has finished every scheduled item was started once and has exactly one
\* outcome, whichever check or step it failed at.
C5_ExactlyOneOutcome ==
  /\ \A k \in Items : runs[k] <= 1
  /\ \A k \in Items :
       Cardinality({p \in 1..Len(results) : results[p].inputFile = k}) <= 1
  /\ BatchFinished =>
       \A p \in Positions :
         /\ runs[filesToProcess[p]] = 1
         /\ Cardinality({q \in 1..Len(results) :
                           results[q].inputFile = filesToProcess[p]}) = 1

\* A finished batch with an item that failed before any call, one that
\* failed at a middle step and one that succeeded.
C5_Witness ==
  /\ BatchFinished
  /\ Len(results) = 3
  /\ \E a \in Items : status[a] = "Failed" /\ calls[a] = << >>
  /\ \E b \in Items : status[b] = "Failed" /\ Len(calls[b]) = 4
  /\ \E c \in Items : status[c] = "Done"

\* C6: the calls of a pipeline are a prefix of the fixed sequence; a call
\* is issued only after the previous one came back without an error; an
\* errored call leaves the pipeline Failed with that call as its last;
\* and a Failed pipeline never issues another call.
C6_State ==
  \A k \in Items :
    /\ calls[k] = SubSeq(StepOps, 1, Len(calls[k]))
    /\ status[k] = "Running" => step[k] = Len(calls[k]) /\ lastReply[k] # "error"
    /\ lastReply[k] = "error" => status[k] = "Failed" /\ step[k] = Len(calls[k])

C6_Step ==
  \A k \in Items :
    status[k] = "Failed" => status'[k] = "Failed" /\ calls'[k] = calls[k]

C6_FixedOrderFailFast == []C6_State /\ [][C6_Step]_vars

\* A pipeline that failed at create-record after issuing exactly three calls.
C6_Witness ==
  \E k \in Items :
    /\ status[k] = "Failed"
    /\ lastReply[k] = "error"
    /\ calls[k] = << "upload-url", "upload", "create-record" >>

\* C7: a pipeline that ended in failure has left the file at its outputPath
\* as it was, and a changed output file belongs to a pipeline that succeeded.
C7_FailureLeavesOutput ==
  \A k \in Items :
    /\ status[k] = "Failed" => fsOut[k] = InitialOutput(k)
    /\ fsOut[k] # InitialOutput(k) => status[k] = "Done"

\* C8: with an existing output file and force off, the command makes no
\* remote call at all and never gets to a final summary.
C8_ExistingOutputAbortsFirst ==
  ( /\ mode \in {"file", "dir"}
    /\ ~force
    /\ \E k \in Items : Counted(entries[k].ext) /\ entries[k].outExists )
  => /\ \A k \in Items : calls[k] = << >>
     /\ ctl # "report"

\* C9: a pipeline whose latest call came back with success:false in the
\* envelope is Failed, and that call is the last one it issued.
C9_EnvelopeFalseFails ==
  \A k \in Items :
    lastReply[k] \in {"falseData", "falseNull"}
      => status[k] = "Failed" /\ step[k] = Len(calls[k])

\* C10: a started pipeline whose extension is neither .pdf nor .html (in any
\* case) is Failed with the unsupported-type error, has issued no remote
\* call, and the file at its outputPath is as it was.
UnsupportedExtensions == {".txt", ""}

C10_UnsupportedFailsFirst ==
  \A k \in Items :
    (runs[k] > 0 /\ entries[k].ext \in UnsupportedExtensions)
      => /\ status[k] = "Failed"
         /\ outcome[k].error = Wrap(<< "Unsupported file type" >>)
         /\ calls[k] = << >>
         /\ fsOut[k] = InitialOutput(k)

\* A started item without extension, its existing output file untouched.
C10_Witness ==
  \E k \in Items :
    /\ runs[k] = 1
    /\ entries[k].ext = ""
    /\ entries[k].outExists
    /\ status[k] = "Failed"
    /\ fsOut[k] = "old"

\* The error field of an outcome holds a message with some text in it.
HasMessage(o) ==
  /\ o.hasError
  /\ Len(o.error) > 0
  /\ \A p \in 1..Len(o.error) : o.error[p] # ""

\* C11: every outcome with success = false, as the value of its wave promise
\* and as an element of the results, carries a non-empty error message,
\* whichever check, local file operation or remote step the item failed at.
C11_FailureCarriesMessage ==
  /\ \A k \in Items :
       outcome[k].settled /\ ~outcome[k].success => HasMessage(outcome[k])
  /\ \A p \in 1..Len(results) : ~results[p].success => HasMessage(results[p])

\* A finished batch holding the outcome of an item whose input file was gone
\* when its pipeline called statSync.
C11_Witness ==
  /\ BatchFinished
  /\ \E p \in 1..Len(results) :
       /\ ~results[p].success
       /\ entries[results[p].inputFile].input = "missing"
       /\ IsSupported(entries[results[p].inputFile].ext)
       /\ calls[results[p].inputFile] = << >>
       /\ HasMessage(results[p])

\* The items whose pipeline was started.
Processed == {k \in Items : runs[k] > 0}

\* C12: when every item the command processed has failed (the one file of
\* file mode, or all the items of a directory batch), the command does not
\* return normally: it never ends with exit code 0.
C12_TotalFailureExitsNonZero ==
  ( /\ mode \in {"file", "dir"}
    /\ Processed # {}
    /\ \A k \in Processed : status[k] = "Failed" )
  => ctl # "exit0"

\* The directory batch is over and the command has ended.
BatchEnded ==
  /\ mode = "dir"
  /\ report.shown
  /\ ctl \in {"exit0", "exit1"}

\* C13: a directory batch ends the command the same way whether all of its
\* items succeeded or some did and some did not: with exit code 0.
C13_PartialFailureExitsLikeSuccess ==
  ( /\ BatchEnded
    /\ \E p \in 1..Len(results) : results[p].success )
  => ctl = "exit0"

\* A directory batch that ended with exit code 0 after one item succeeded
\* and another failed.
C13_Witness ==
  /\ BatchEnded
  /\ ctl = "exit0"
  /\ \E p \in 1..Len(results) : results[p].success
  /\ \E p \in 1..Len(results) : ~results[p].success

\* The items whose pipeline has issued its step-4 request.
Triggered == {k \in Items : processRequest[k] # "unsent"}

\* C14: the step-4 request of a pipeline carries a model exactly when the
\* input is a .pdf and processFileComplete was given a model, and then it
\* is that model; the request for an .html input never carries one.
C14_ModelOnlyForDocuments ==
  \A k \in Triggered :
    /\ "process" = calls[k][4]
    /\ ToLowerCase(entries[k].ext) = ".html" => processRequest[k] = "none"
    /\ ToLowerCase(entries[k].ext) = ".pdf" => processRequest[k] = OptionsModel
    /\ processRequest[k] # "none" <=>
         ToLowerCase(entries[k].ext) = ".pdf" /\ OptionsModel \in Models

\* An .html task that was given a model has sent its step-4 request, and
\* the request carries none.
C14_Witness ==
  \E k \in Triggered :
    /\ entries[k].ext = ".html"
    /\ OptionsModel = "doc-lumen"
    /\ processRequest[k] = "none"
    /\ Len(calls[k]) >= 4

\* C15: the command accepts a model given on its command line, and the
\* step-4 request of every PDF it processes then carries that model.
C15_SelectedModelReachesRequest ==
  ( mode \in {"file", "dir"} /\ selector \in Models )
  => /\ ctl # "usageError"
     /\ \A k \in Triggered : IsDocument(entries[k].ext) => processRequest[k] = selector

\* The scheduler has been entered / has left its loop with every outcome and,
\* in the command, has printed its final report.
BatchStarted == ctl = "loop"

BatchReported ==
  /\ Len(results) = Len(filesToProcess)
  /\ IF mode = "api" THEN ctl = "returned" ELSE report.shown

\* C16: when every remote call comes back, a pipeline that has started ends
\* Done or Failed, and stays so; and a batch that has started goes through
\* all of its waves and ends with its results and its final report.
C16_EveryStartedPipelineEnds ==
  /\ \A k \in 1..MaxScan :
       (k \in Items /\ status[k] = "Running") ~> (k \in Items /\ Terminal(k))
  /\ BatchStarted ~> BatchReported
  /\ [][\A k \in Items : Terminal(k) => status'[k] = status[k]]_vars

\* A directory batch of two items, one per wave, has printed its report; the
\* first item failed at a remote step and the second was still processed.
C16_Witness ==
  /\ mode = "dir"
  /\ concurrency = 1
  /\ Len(filesToProcess) = 2
  /\ BatchReported
  /\ status[filesToProcess[1]] = "Failed"
  /\ status[filesToProcess[2]] = "Done"

\* The positions of the results with the given value of success.
WithSuccess(flag) == {p \in 1..Len(results) : results[p].success = flag}

\* C17: the final report's succeeded is the number of outcomes with
\* success = true, its failed the number with success = false, and the two
\* add up to its total, the number of scheduled items.
C17_ReportCountsOutcomes ==
  report.shown =>
    /\ report.successful = Cardinality(WithSuccess(TRUE))
    /\ report.failed = Cardinality(WithSuccess(FALSE))
    /\ report.successful + report.failed = report.total
    /\ report.total = Len(filesToProcess)

\* The report of a three-item batch: two succeeded, one failed.
C17_Witness ==
  /\ report.shown
  /\ report.total = 3
  /\ report.successful = 2
  /\ report.failed = 1

\* C18: the verdict of the final summary follows from the two counts alone:
\* all-succeeded when nothing failed, mixed when something failed and
\* something succeeded, all-failed when nothing succeeded; a batch without
\* a success is never reported as mixed or as all-succeeded.
C18_VerdictFollowsCounts ==
  report.shown =>
    /\ report.verdict \in {"all-succeeded", "mixed", "all-failed"}
    /\ report.verdict = "all-succeeded" <=> WithSuccess(FALSE) = {}
    /\ report.verdict = "mixed" <=>
         WithSuccess(FALSE) # {} /\ WithSuccess(TRUE) # {}
    /\ report.verdict = "all-failed" <=>
         WithSuccess(TRUE) = {} /\ WithSuccess(FALSE) # {}
    /\ WithSuccess(TRUE) = {} => report.verdict = "all-failed"

\* A batch of two items that both failed, reported as all-failed.
C18_Witness ==
  /\ report.shown
  /\ Len(results) = 2
  /\ WithSuccess(TRUE) = {}
  /\ report.verdict = "all-failed"

\* C19: when a batch ends with a failed item, the final report lists every
\* failed item with its error message, verbose or not.
C19_FailedItemsListed ==
  ( report.shown /\ WithSuccess(FALSE) # {} )
  => \A p \in WithSuccess(FALSE) :
       \E q \in 1..Len(report.listed) :
         report.listed[q] =
           [file |-> results[p].inputFile, error |-> results[p].error]

\* C20: in one invocation of the command no two scheduled items, and no two
\* items whose pipeline was started, have the same output path, whether
\* they run in the same wave or in different ones.
C20_OutputPathsDistinct ==
  mode \in {"file", "dir"} =>
    /\ \A p, q \in Positions :
         p # q => OutputPath(filesToProcess[p]) # OutputPath(filesToProcess[q])
    /\ \A a, b \in Processed : a # b => OutputPath(a) # OutputPath(b)

\* A directory with two entries of the same stem, a .pdf and an .html; both
\* were processed and each wrote its own output file.
C20_Witness ==
  /\ mode = "dir"
  /\ Len(filesToProcess) = 2
  /\ entries[filesToProcess[1]].stem = entries[filesToProcess[2]].stem
  /\ \A p \in Positions :
       status[filesToProcess[p]] = "Done" /\ fsOut[filesToProcess[p]] = "processed"
  /\ OutputPath(filesToProcess[1]) # OutputPath(filesToProcess[2])

\* The items that failed because a metadata call came back with an error.
FailedAtMetadata ==
  {k \in Items : /\ status[k] = "Failed"
                 /\ lastReply[k] = "error"
                 /\ IsMetadataStep(step[k])}

\* The last part of item k's error message, and the part before it.
MessageText(k) == outcome[k].error[Len(outcome[k].error)]
MessageContext(k) == outcome[k].error[Len(outcome[k].error) - 1]

\* C21: the message of a failed metadata call is the operation's context
\* followed, for status 401, 403, 404, 429 and 500, by the fixed text of
\* that status whatever the body says, and for any other status or no
\* response by the server's message when the body carries one, else by
\* the transport error's message.
C21_ErrorTranslation ==
  \A k \in FailedAtMetadata :
    LET f == lastFault[k] IN
    /\ MessageContext(k) = StepContext[step[k]]
    /\ f.status = "401" => MessageText(k) = "Invalid API key or authentication failed"
    /\ f.status = "403" =>
         MessageText(k) = "Access forbidden - check your API key permissions"
    /\ f.status = "404" => MessageText(k) = "API endpoint not found - check your base URL"
    /\ f.status = "429" => MessageText(k) = "Rate limit exceeded - please try again later"
    /\ f.status = "500" => MessageText(k) = "Server error - please try again later"
    /\ f.status \notin {"401", "403", "404", "429", "500"} =>
         MessageText(k) =
           ( IF f.body \in {"message", "both"} THEN "server message"
             ELSE IF f.body = "errorMessage" THEN "server error message"
             ELSE "request failed" )

\* A create-record call answered 429 with a message of its own in the body:
\* the outcome carries the rate-limit text.
C21_Witness ==
  \E k \in FailedAtMetadata :
    /\ StepOps[step[k]] = "create-record"
    /\ lastFault[k] = [status |-> "429", body |-> "message"]
    /\ MessageText(k) = "Rate limit exceeded - please try again later"

\* Nothing has been done for the input yet.
Untouched ==
  /\ filesToProcess = << >>
  /\ outputDir = InitialOutputDir
  /\ \A k \in Items : runs[k] = 0 /\ calls[k] = << >> /\ fileWrites[k] = << >>

C22_State ==
  mode = "missing" => ctl \in {"parse", "analyze", "exit1"} /\ Untouched

C22_Step == (mode = "missing" /\ ctl = "analyze") => ctl' = "exit1"

\* C22: with an input path that does not exist the command ends with a fatal
\* error in its file analysis, at once and without a second look: it never
\* shows the confirmation prompt, creates no output directory, schedules no
\* work item and makes no remote call.
C22_MissingInputIsFatal == []C22_State /\ [][C22_Step]_vars

\* The command has ended with an error on a missing input path.
C22_Witness == mode = "missing" /\ ctl = "exit1" /\ Untouched

\* The bytes of item k's input file: every input has a content of its own.
InputBytes(k) == << k >>

\* C23: with a remote service that sends back on download what was uploaded,
\* every pipeline that ended Done has left at its output path a whole file
\* with the bytes of its own input, also when it ran beside other pipelines.
C23_RoundTrip ==
  \A k \in Items :
    status[k] = "Done" =>
      /\ fileWrites[k] # << >>
      /\ LET last == fileWrites[k][Len(fileWrites[k])]
         IN /\ last.path = OutputPath(k)
            /\ last.whole
            /\ last.bytes = InputBytes(k)

\* Two pipelines of one wave have both ended Done, the second before the
\* first, and each output holds the bytes of its own input.
C23_Witness ==
  /\ concurrency = 2
  /\ Len(filesToProcess) = 2
  /\ finished = << filesToProcess[2], filesToProcess[1] >>
  /\ \A p \in Positions :
       /\ status[filesToProcess[p]] = "Done"
       /\ fileWrites[filesToProcess[p]][1].bytes = InputBytes(filesToProcess[p])

\* ceil(n / c)
Ceil(n, c) == (n + c - 1) \div c

\* The number of waves the scheduler has to form, and the size of the last.
WaveCount == Ceil(Len(filesToProcess), concurrency)
LastWaveSize == Len(filesToProcess) - concurrency * (WaveCount - 1)

\* C24: the scheduler forms ceil(N/C) waves, consecutive slices of the
\* input: wave w (0, 1, ...) starts at item w*C + 1, has C items unless it
\* is the last, which has N - C*(ceil(N/C) - 1), and exactly these items
\* are begun in it; three items at concurrency 2 that all succeed are
\* reported as succeeded = 3, failed = 0.
C24_WavesAreSlices ==
  /\ ctl \in {"map", "await"} =>
       /\ i % concurrency = 0
       /\ i \div concurrency < WaveCount
       /\ Len(Batch(i)) = IF i \div concurrency < WaveCount - 1
                            THEN concurrency ELSE LastWaveSize
       /\ \A p \in 1..Len(Batch(i)) : Batch(i)[p] = filesToProcess[i + p]
       /\ Len(started) <= Len(Batch(i))
       /\ \A p \in 1..Len(started) : started[p] = filesToProcess[i + p]
       /\ ctl = "await" => Len(started) = Len(Batch(i))
  /\ BatchFinished => i = concurrency * WaveCount
  /\ ( /\ report.shown
       /\ Len(filesToProcess) = 3
       /\ \A p \in 1..Len(results) : results[p].success )
     => report.successful = 3 /\ report.failed = 0

\* Three items at concurrency 2 ran as a wave of two and a wave of one, all
\* succeeded, and the report says 3 and 0.
C24_Witness ==
  /\ report.shown
  /\ concurrency = 2
  /\ Len(filesToProcess) = 3
  /\ i = 4
  /\ started = << filesToProcess[3] >>
  /\ report.successful = 3
  /\ report.failed = 0

C25_State ==
  /\ \A k \in Items :
       /\ \A n \in 1..Len(fileWrites[k]) : fileWrites[k][n].path = OutputPath(k)
       /\ status[k] = "Done" =>
            /\ Len(fileWrites[k]) = 1
            /\ fileWrites[k][1].whole
            /\ calls[k] = StepOps
       /\ outcome[k].settled /\ outcome[k].success =>
            status[k] = "Done" /\ fsOut[k] = "processed"
  /\ \A p \in 1..Len(results) :
       results[p].success => Len(fileWrites[results[p].inputFile]) = 1

C25_Step ==
  \A k \in Items :
    fileWrites'[k] # fileWrites[k] =>
      /\ status[k] = "Running"
      /\ step[k] = LastStep
      /\ Len(fileWrites'[k]) = Len(fileWrites[k]) + 1
      /\ Terminal(k)'

\* C25: a pipeline that ended with success has written one local file, whole,
\* at its own output path; the write is what its step 7 did last, after which
\* the pipeline is over; no pipeline writes anywhere else, and no outcome
\* says success before the write is done.
C25_OneWriteOnSuccess == []C25_State /\ [][C25_Step]_vars

\* A pipeline that ended Done after all seven calls and its one write.
C25_Witness ==
  \E k \in Items :
    /\ status[k] = "Done"
    /\ outcome[k].success
    /\ Len(fileWrites[k]) = 1
    /\ fileWrites[k][1].path = OutputPath(k)
    /\ fsOut[k] = "processed"

\* The type an extension stands for, spelled out.
ClassOf(ext) ==
  IF ext \in {".pdf", ".PDF", ".Pdf"} THEN "Document"
  ELSE IF ext \in {".html", ".HTML", ".hTmL"} THEN "Markup"
  ELSE "Unsupported"

\* The type item k's pipeline took its input for, once it has looked.
PipelineClass(k) ==
  IF calls[k] = << >> THEN "Unsupported"
  ELSE IF args[k][1].of = << "application/pdf" >> THEN "Document"
  ELSE "Markup"

\* The pipeline of item k has made its extension check.
Classified(k) == runs[k] > 0 /\ (mode = "api" \/ ~OutputBlocked(k))

\* C26: the type of an input follows from its extension alone, whatever its
\* case: .pdf is a Document, .html is Markup, anything else (no extension,
\* .htm) is Unsupported; and the analysis, the directory scan and the
\* pipeline, which classify the same path one after the other, agree.
C26_ClassifiedByExtension ==
  /\ \A k \in Items :
       Classified(k) => PipelineClass(k) = ClassOf(entries[k].ext)
  /\ ( /\ mode \in {"file", "dir"}
       /\ ctl \in {"confirm", "dispatch", "single", "loop", "map", "await", "report"} )
     => \E k \in Items : ClassOf(entries[k].ext) # "Unsupported"
  /\ mode = "dir" =>
       \A p \in Positions : ClassOf(entries[filesToProcess[p]].ext) # "Unsupported"
  /\ mode = "dir" /\ ctl \in {"loop", "map", "await", "report"} =>
       \A k \in Items :
         ClassOf(entries[k].ext) # "Unsupported" =>
           \E p \in Positions : filesToProcess[p] = k
  /\ \A k \in Items :
       mode \in {"file", "dir"} /\ runs[k] > 0 =>
         ClassOf(entries[k].ext) # "Unsupported"

\* A file called *.hTmL was counted by the analysis and taken for Markup by
\* its pipeline.
C26_Witness ==
  \E k \in Items :
    /\ mode = "file"
    /\ entries[k].ext = ".hTmL"
    /\ Classified(k)
    /\ PipelineClass(k) = "Markup"

\* The scheduled positions of the wave that is being mapped or awaited.
WavePositions == {p \in Positions : i < p /\ p <= i + concurrency}

C27_State ==
  ctl \in {"map", "await"} =>
    /\ Len(started) = j
    /\ \A p \in 1..Len(started) : started[p] = filesToProcess[i + p]

C27_Step ==
  ctl = "map" =>
    \A p, q \in WavePositions :
      ( p < q /\ runs'[filesToProcess[q]] > runs[filesToProcess[q]] ) =>
        /\ runs[filesToProcess[p]] = 1
        /\ status[filesToProcess[p]] # "NotStarted"

\* C27: the pipelines of a wave are begun in input order: when an item's
\* first action (its checks and the issue of its first call) runs, every
\* item before it in the wave has already had its own; the order in which
\* they end is free.
C27_StartedInInputOrder == []C27_State /\ [][C27_Step]_vars

\* A wave of two, begun first-then-second, ended second-then-first.
C27_Witness ==
  /\ ctl = "await"
  /\ Len(Batch(i)) = 2
  /\ started = << Batch(i)[1], Batch(i)[2] >>
  /\ finished = << Batch(i)[2], Batch(i)[1] >>

\* The constant of processFileComplete each step's call reads, spelled out
\* from the calls (uploadUrlResponse.uploadUrl, uploadUrlResponse.objectKey,
\* originalFile.id, processResponse.processedFileId, processedFile.id,
\* downloadUrlResponse.downloadUrl).
C28_Reads ==
  << "contentType", "uploadUrl", "objectKey", "id", "processedFileId",
     "processedId", "downloadUrl" >>

\* C28: every step after the first of an item's pipeline is given the value
\* its own earlier step returned (the upload the upload URL of step 1,
\* create-record the object key of step 1, process the id of the record of
\* step 3, fetch-record the processedFileId of step 4, download-url the id
\* of the record of step 5, the download the URL of step 6), never a value
\* another item obtained, however the pipelines of a wave interleave.
C28_OwnValuesOnly ==
  \A k \in Items :
    /\ Len(args[k]) = Len(calls[k])
    /\ \A s \in 2..Len(args[k]) :
         args[k][s] = [field |-> C28_Reads[s], of |-> << k >>]

\* Two pipelines of one wave are both suspended on their download, each
\* having made its seven calls while the other was running.
C28_Witness ==
  /\ ctl = "await"
  /\ Len(Batch(i)) = 2
  /\ \A p \in 1..2 :
       /\ status[Batch(i)[p]] = "Running"
       /\ step[Batch(i)[p]] = LastStep
       /\ Len(args[Batch(i)[p]]) = LastStep

\* The step whose context text a failed item's message carries (0 when the
\* message has none: the item failed before or between the operations).
C29_FailedStep(k) ==
  LET e == outcome[k].error
      named == {s \in 1..LastStep : Len(e) >= 2 /\ e[Len(e) - 1] = StepContext[s]}
  IN IF named = {} THEN 0 ELSE CHOOSE s \in named : TRUE

\* uploadFile was called and threw on fs.readFileSync, before its PUT.
C29_ThrewBeforeRequest(k) ==
  /\ entries[k].input = "unreadable"
  /\ lastReply[k] # "error"
  /\ C29_FailedStep(k) = 2

C29_State ==
  \A k \in Items :
    /\ runs[k] <= 1
    /\ Len(calls[k]) <= LastStep
    /\ \A s \in 1..Len(calls[k]) : calls[k][s] = StepOps[s]
    /\ \A a, b \in 1..Len(calls[k]) : a # b => calls[k][a] # calls[k][b]
    /\ status[k] = "NotStarted" => calls[k] = << >>
    /\ status[k] = "Done" => calls[k] = StepOps
    /\ ( status[k] = "Failed" /\ C29_FailedStep(k) > 0 ) =>
         Len(calls[k]) = IF C29_ThrewBeforeRequest(k)
                           THEN C29_FailedStep(k) - 1
                           ELSE C29_FailedStep(k)
    /\ ( status[k] = "Failed" /\ C29_FailedStep(k) = 0 ) =>
         \/ calls[k] = << >>
         \/ lastReply[k] = "falseNull" /\ Len(calls[k]) = step[k]

C29_Step ==
  \A k \in Items :
    /\ Len(calls'[k]) <= Len(calls[k]) + 1
    /\ status[k] \in {"Failed", "Done"} =>
         /\ calls'[k] = calls[k]
         /\ status'[k] = status[k]
         /\ runs'[k] = runs[k]

C30_StepsNamed(k) ==
  LET e == outcome[k].error
  IN {s \in 1..LastStep : Len(e) >= 2 /\ e[Len(e) - 1] = StepContext[s]}

\* C30: the message of an item whose remote step k was answered by an
\* error is step k's context text followed by the text made of that very
\* error; the seven context texts differ from one another, so the message
\* names step k and no other step, whatever the other pipelines of the
\* wave are doing.
C30_MessageNamesFailedStep ==
  /\ \A s, t \in 1..LastStep : s # t => StepContext[s] # StepContext[t]
  /\ \A k \in Items :
       ( status[k] = "Failed" /\ lastReply[k] = "error" ) =>
         /\ step[k] = Len(calls[k])
         /\ outcome[k].error = Wrap(<< StepContext[step[k]],
                                      ErrorText(step[k], lastFault[k]) >>)
         /\ C30_StepsNamed(k) = {step[k]}

\* Two pipelines of one wave: create-record (step 3) failed for one, whose
\* message names that step, and the other ended Done.
C30_Witness ==
  /\ ctl = "await"
  /\ Len(Batch(i)) = 2
  /\ \E a, b \in {Batch(i)[1], Batch(i)[2]} :
       /\ status[a] = "Failed"
       /\ lastReply[a] = "error"
       /\ StepOps[step[a]] = "create-record"
       /\ C30_StepsNamed(a) = {3}
       /\ status[b] = "Done"

\* Entry k of the listing is a regular file with a .pdf / .html name.
C31_RegularSupported(k) ==
  /\ entries[k].input # "directory"
  /\ entries[k].ext \in {".pdf", ".PDF", ".Pdf", ".html", ".HTML", ".hTmL"}

\* The command has gone past the analysis with a non-zero count.
C31_AnalysisFound == ctl \in {"confirm", "dispatch", "loop", "map", "await", "report"}

C31_WitnessOnlySubdirectory ==
  /\ mode = "dir"
  /\ ctl = "exit0"
  /\ \A k \in Items : entries[k].input = "directory" /\ entries[k].ext = ".pdf"

\* Item k's outcome is the overwrite check's error.
C32_Refused(k) ==
  /\ outcome[k].settled
  /\ ~outcome[k].success
  /\ outcome[k].error = << "Output file already exists" >>

C32_WitnessLaterWave ==
  /\ mode = "dir"
  /\ ~force
  /\ concurrency = 1
  /\ report.shown
  /\ Len(filesToProcess) = 2
  /\ C32_Refused(filesToProcess[1])
  /\ status[filesToProcess[2]] = "Done"

\* With --force an item whose output was there is Done and the output is
\* the processed file.
C32_WitnessForce ==
  /\ mode = "dir"
  /\ force
  /\ \E k \in Items :
       entries[k].outExists /\ status[k] = "Done" /\ fsOut[k] = "processed"

\* Nothing of the processing has happened: no pipeline begun, no call, no
\* wave, no work list, and the disk as it was.
C33_Untouched ==
  /\ \A k \in Items :
       /\ status[k] = "NotStarted"
       /\ calls[k] = << >>
       /\ runs[k] = 0
       /\ fsOut[k] = InitialOutput(k)
       /\ fileWrites[k] = << >>
       /\ ~outcome[k].settled
  /\ started = << >>
  /\ filesToProcess = << >>
  /\ results = << >>
  /\ outputDir = InitialOutputDir
  /\ ~report.shown

C33_State ==
  mode \in {"file", "dir"} =>
    /\ confirmed # "yes" => C33_Untouched
    /\ confirmed = "no" => ctl = "exit0"
    /\ ctl \in {"parse", "analyze", "confirm"} => confirmed = "unasked"

C33_Step ==
  ( mode \in {"file", "dir"} /\ confirmed = "no" ) => UNCHANGED vars

\* C33: the command does nothing of the processing before the user says
\* yes at the prompt: as long as the prompt has not been answered yes, no
\* call has been issued, no output directory or file made, no pipeline
\* begun and no wave started; after a no the command has ended with none
\* of it done, and nothing happens any more.
C33_NothingBeforeConfirm == []C33_State /\ [][C33_Step]_vars

\* The user was asked (the analysis had found files) and said no: the
\* command has ended, the output directory was not made.
C33_Witness ==
  /\ mode = "dir"
  /\ confirmed = "no"
  /\ ctl = "exit0"
  /\ AnalysisCount > 0
  /\ C33_Untouched
  /\ outputDir = "absent"

\* The entries each of the three sites takes: the analysis (fileStats under
\* analyzeDirectory's isFile), the scan (processDirectory's filter), and the
\* pipeline's own check on a regular file.
C34_Analysed == {k \in Items : IsFile(k) /\ Counted(entries[k].ext)}
C34_Queued == {filesToProcess[p] : p \in Positions}
C34_Accepted == {k \in Items : IsFile(k) /\ IsSupported(entries[k].ext)}

\* C34: on any directory the analysis, the scan and the pipeline's check
\* take the same files: the analysis and the pipeline agree on every
\* entry; once the scan has run its queue is that same set, as long as the
\* analysed count; no queued item ends with the unsupported-type error; and
\* the scan is never reached with nothing to queue.
C34_SitesAgree ==
  mode = "dir" =>
    /\ C34_Analysed = C34_Accepted
    /\ ctl \in {"loop", "map", "await", "report"} =>
         /\ C34_Queued = C34_Analysed
         /\ Len(filesToProcess) = AnalysisCount
         /\ Len(filesToProcess) = Cardinality(C34_Queued)
    /\ \A k \in C34_Queued :
         outcome[k].settled /\ ~outcome[k].success =>
           outcome[k].error # Wrap(<< "Unsupported file type" >>)
    /\ ( confirmed = "yes" /\ ctl \notin {"dispatch"} ) => filesToProcess # << >>

\* A directory holding x.HTML and y.htm: the analysis counted one file, the
\* scan queued that one, and its pipeline went through.
C34_Witness ==
  /\ mode = "dir"
  /\ report.shown
  /\ \E a, b \in Items :
       /\ entries[a].ext = ".HTML" /\ entries[a].input = "readable"
       /\ entries[b].ext = ".htm" /\ entries[b].input = "readable"
       /\ filesToProcess = << a >>
       /\ AnalysisCount = 1
       /\ status[a] = "Done"

\* How many times item k has asked for the processed record.
C35_Fetches(k) ==
  Cardinality({p \in 1..Len(calls[k]) : calls[k][p] = "fetch-record"})

\* C35: the processed record is asked for once at most, and its status is
\* not looked at: while the latest answer an item has is a record that is
\* still processing or has failed, the item is running its next step, the
\* request for the download URL (and from there the download, like any
\* other item); an item that is Done has fetched exactly once.
C35_FetchOnceStatusIgnored ==
  \A k \in Items :
    /\ C35_Fetches(k) <= 1
    /\ status[k] = "Done" => C35_Fetches(k) = 1
    /\ lastReply[k] \in RecordStatuses =>
         /\ status[k] = "Running"
         /\ StepOps[step[k]] = "download-url"
         /\ calls[k] = SubSeq(StepOps, 1, step[k])

\* The fetched record said failed, and the pipeline is waiting for the
\* download URL.
C35_Witness ==
  \E k \in Items :
    /\ lastReply[k] = "failed"
    /\ status[k] = "Running"
    /\ StepOps[step[k]] = "download-url"
    /\ C35_Fetches(k) = 1

\* One outcome is well formed: exactly one of result and error is there,
\* and success says which.
C36_WellFormed(o) ==
  /\ o.success <=> ( o.hasResult /\ ~o.hasError )
  /\ ~o.success <=> ( o.hasError /\ ~o.hasResult )
  /\ o.hasError <=> o.error # << >>

\* C36: every outcome processFilesCompleteParallel collects and returns is
\* well formed: success is true exactly when the result is present and the
\* error absent, false exactly when the error is present and the result
\* absent; its inputFile is the input path of the task at its position, and
\* success tells how that task's pipeline ended.
C36_OutcomesWellFormed ==
  mode = "api" =>
    /\ \A p \in 1..Len(results) :
         /\ C36_WellFormed(results[p])
         /\ results[p].inputFile = filesToProcess[p]
         /\ results[p].success <=> status[filesToProcess[p]] = "Done"
    /\ \A k \in Items : outcome[k].settled =>
         C36_WellFormed(outcome[k]) /\ outcome[k].inputFile = k

\* The call has returned two outcomes at least, one with a result and one
\* with an error.
C36_Witness ==
  /\ mode = "api"
  /\ ctl = "returned"
  /\ \E p, q \in 1..Len(results) :
       /\ results[p].success /\ results[p].hasResult
       /\ ~results[q].success /\ results[q].hasError

\* How many of the tasks tasks.slice(0, concurrency) takes when the
\* concurrency is not positive: none for 0, all but the last -concurrency
\* for a negative one.
C37_FirstSlice ==
  IF concurrency = 0 \/ Len(filesToProcess) + concurrency < 0
    THEN 0 ELSE Len(filesToProcess) + concurrency

\* The statement as it was made: with a concurrency of 0 or less the call
\* never returns and no task is ever run.
C37_NoTaskRunWhenNotPositive ==
  ( mode = "api" /\ concurrency <= 0 ) =>
    /\ ctl # "returned"
    /\ \A k \in Items : status[k] = "NotStarted" /\ calls[k] = << >>

C37_State ==
  ( mode = "api" /\ concurrency <= 0 ) =>
    /\ ctl # "returned"
    /\ i <= 0
    /\ concurrency = 0 => \A k \in Items : status[k] = "NotStarted" /\ calls[k] = << >>
    /\ \A p \in Positions :
         /\ runs[filesToProcess[p]] <= 1
         /\ p > C37_FirstSlice => /\ status[filesToProcess[p]] = "NotStarted"
                                  /\ calls[filesToProcess[p]] = << >>
         /\ ( p <= C37_FirstSlice /\ i < 0 ) => outcome[filesToProcess[p]].settled
    /\ i < 0 => /\ Batch(i) = << >>
                /\ Len(results) = C37_FirstSlice

C37_Returns == ( mode = "api" /\ concurrency >= 1 ) ~> ( ctl = "returned" )

\* C37: processFilesCompleteParallel takes its concurrency as it comes.
\* With a concurrency of 1 or more the call returns.  With 0 or less it
\* never returns: the loop index never reaches the list's length.  With 0
\* every slice is empty and no task is run; with a negative concurrency c
\* the first slice, tasks.slice(0, c), is the list without its last -c
\* tasks, which are run once, in one wave, and every later slice is empty:
\* the last -c tasks are never run.
C37_UnvalidatedConcurrency == []C37_State /\ C37_Returns

\* Two tasks, concurrency -1: the first task was run and is Done, the second
\* was never begun, and the loop is going round on empty slices.
C37_Witness ==
  /\ mode = "api"
  /\ concurrency = 0 - 1
  /\ Len(filesToProcess) = 2
  /\ i < 0 - 1
  /\ status[filesToProcess[1]] = "Done"
  /\ status[filesToProcess[2]] = "NotStarted"
  /\ results # << >>

\* Concurrency 0: the loop has gone round, nothing was run.
C37_WitnessZero ==
  /\ mode = "api"
  /\ concurrency = 0
  /\ ctl = "await"
  /\ results = << >>
  /\ \A k \in Items : status[k] = "NotStarted"

\* The reference both schedulers are held against, a function of the item
\* list, the concurrency and the items' pipeline results alone: wave w
\* (1, 2, ...) is the w-th run of `concurrency` consecutive positions, and
\* the flags are the pipeline results in list order.
C38_WaveFirst(w) == (w - 1) * concurrency + 1
C38_WaveLast(w) ==
  IF w * concurrency < Len(filesToProcess)
    THEN w * concurrency ELSE Len(filesToProcess)
C38_Flags == [p \in Positions |-> status[filesToProcess[p]] = "Done"]

\* The inputs the two schedulers have in common.
C38_Common ==
  /\ mode \in {"api", "dir"}
  /\ \A k \in Items : ~entries[k].outExists

C38_WitnessApi ==
  /\ mode = "api"
  /\ concurrency = 2
  /\ Len(filesToProcess) = 3
  /\ ctl = "returned"
  /\ \A k \in Items : entries[k].ext = ".pdf" /\ ~entries[k].outExists
  /\ [p \in 1..3 |-> results[p].success] = << TRUE, FALSE, TRUE >>

\* The input exists and holds no regular .pdf / .html file.
C39_NothingSupported ==
  /\ mode \in {"file", "dir"}
  /\ \A k \in Items : ~C31_RegularSupported(k)

\* C39: when the input holds no supported file the command returns after
\* the analysis: the prompt is never shown, no work list or wave is formed,
\* no pipeline is begun, no call issued, nothing written and no final
\* summary printed.  So a final summary is only ever printed for a batch of
\* one item at least.
C39_EmptyInputReturnsEarly ==
  /\ C39_NothingSupported =>
       /\ ctl \in {"parse", "analyze", "exit0"}
       /\ confirmed = "unasked"
       /\ C33_Untouched
  /\ report.shown =>
       /\ report.total >= 1
       /\ Len(filesToProcess) >= 1
       /\ Len(results) = report.total
       /\ confirmed = "yes"

\* A directory of a text file and a .htm file: the command has ended after
\* the analysis, unasked and with nothing touched.
C39_Witness ==
  /\ mode = "dir"
  /\ ctl = "exit0"
  /\ confirmed = "unasked"
  /\ \E a, b \in Items :
       /\ entries[a].ext = ".txt" /\ entries[a].input = "readable"
       /\ entries[b].ext = ".htm" /\ entries[b].input = "readable"
  /\ C39_NothingSupported
  /\ ~report.shown

====
